---- MODULE Spec2Model ----
(***************************************************************************)
(* Model of src/hash_parity.rs: the hash-parity regression harness.        *)
(*                                                                         *)
(* main() discovers the compressed simfiles under tests/packs, sorts and   *)
(* filters them, runs check_file on each one in turn and prints a libtest  *)
(* style report.  check_file resolves the baseline of a simfile by the md5 *)
(* of its decompressed bytes, runs the hashing engine and compares the     *)
(* engine's hashes with the baseline's, group by group.                    *)
(*                                                                         *)
(* Strings are TLA+ strings; characters are strings of length one.         *)
(* The file system is a function from path strings to nodes.               *)
(***************************************************************************)
EXTENDS Integers, Sequences, FiniteSets

VARIABLES
    fs,           \* the file system: path |-> node (read-only during a run)
    engine,       \* rssp::compute_all_hashes: <<raw bytes, extension>> |-> outcome
    args,         \* libtest_mimic::Arguments: filter, exact, skip, ignored, list
    pc,           \* position in main
    baseline_dir, \* main: baseline_dir
    tests,        \* main: the collected (then sorted) Vec<TestCase>
    selected,     \* main: the second `tests`, after the CLI filters
    next,         \* main: how many elements of `for test in tests` are consumed
    num_passed,   \* main: num_passed
    num_failed,   \* main: num_failed
    failures,     \* main: failures
    stdout,       \* the lines printed so far
    exit_code,    \* the process's exit status, once it has ended
    result        \* the Result of the last check_file call

vars == <<fs, engine, args, pc, baseline_dir, tests, selected, next,
          num_passed, num_failed, failures, stdout, exit_code, result>>

-----------------------------------------------------------------------------
(* Bounds of the model.                                                    *)

\* most chart entries of a baseline and of an engine result, together
MaxCharts == 3
\* most files under tests/packs
MaxFiles == 3

-----------------------------------------------------------------------------
(* Option and Result.                                                      *)

None == [some |-> FALSE]
Some(v) == [some |-> TRUE, val |-> v]

Ok == [ok |-> TRUE]
Err(m) == [ok |-> FALSE, msg |-> m]

-----------------------------------------------------------------------------
(* Strings.                                                                *)

Char(s, i) == SubSeq(s, i, i)

\* The characters the model uses, in ASCII order.
Ascii == "\"-./0123456789ABCDEFGHIJKLMNOPQRSTUVWXYZ\\_abcdefghijklmnopqrstuvwxyz"

\* the rank of each character in ASCII order
Rank == [c \in {Char(Ascii, i) : i \in 1..Len(Ascii)} |->
            CHOOSE i \in 1..Len(Ascii) : Char(Ascii, i) = c]

Ord(c) == Rank[c]

UpperCase == "ABCDEFGHIJKLMNOPQRSTUVWXYZ"
LowerCase == "abcdefghijklmnopqrstuvwxyz"

\* each upper-case letter's lower-case letter
LowerOf == [c \in {Char(UpperCase, i) : i \in 1..Len(UpperCase)} |->
               Char(LowerCase, CHOOSE i \in 1..Len(UpperCase) : Char(UpperCase, i) = c)]

\* u8::to_ascii_lowercase
CharToAsciiLowercase(c) == IF c \in DOMAIN LowerOf THEN LowerOf[c] ELSE c

RECURSIVE ToAsciiLowercase(_)
\* str::to_ascii_lowercase (and str::to_lowercase on ASCII text)
ToAsciiLowercase(s) ==
    IF s = "" THEN ""
    ELSE CharToAsciiLowercase(Head(s)) \o ToAsciiLowercase(Tail(s))

\* str::contains(&str)
Contains(s, pat) ==
    \E i \in 0..(Len(s) - Len(pat)) : SubSeq(s, i + 1, i + Len(pat)) = pat

RECURSIVE StrLess(_, _)
\* a < b in String's Ord: byte-wise lexicographic
StrLess(a, b) ==
    IF b = "" THEN FALSE
    ELSE IF a = "" THEN TRUE
    ELSE IF Head(a) = Head(b) THEN StrLess(Tail(a), Tail(b))
    ELSE Ord(Head(a)) < Ord(Head(b))

Digits == "0123456789"

RECURSIVE ToString(_)
\* u32::to_string / usize::to_string
ToString(n) ==
    IF n < 10 THEN Char(Digits, n + 1)
    ELSE ToString(n \div 10) \o Char(Digits, (n % 10) + 1)

RECURSIVE EscapeDebug(_)
\* the body of <str as Debug>::fmt: quotes and backslashes are escaped
EscapeDebug(s) ==
    IF s = "" THEN ""
    ELSE (IF Head(s) = "\"" \/ Head(s) = "\\" THEN "\\" \o Head(s) ELSE Head(s))
         \o EscapeDebug(Tail(s))

\* format!("{:?}", s)
FormatDebug(s) == "\"" \o EscapeDebug(s) \o "\""

-----------------------------------------------------------------------------
(* Paths.                                                                  *)

\* Path::join, for a relative right-hand side
Join(a, b) == a \o "/" \o b

\* the index of the last occurrence of c in s, 0 when there is none
LastIndexOf(s, c) ==
    LET hits == {i \in 1..Len(s) : Char(s, i) = c}
    IN IF hits = {} THEN 0 ELSE CHOOSE i \in hits : \A j \in hits : j <= i

\* Path::file_name, for a path that ends in a normal component
FileName(p) == SubSeq(p, LastIndexOf(p, "/") + 1, Len(p))

\* Path::extension: the part after the last dot of the file name; None
\* when there is no dot or the only dot is the first character
Extension(p) ==
    LET name == FileName(p)
        dot == LastIndexOf(name, ".")
    IN IF dot <= 1 THEN None ELSE Some(SubSeq(name, dot + 1, Len(name)))

\* Path::file_stem: the file name without its extension
FileStem(p) ==
    LET name == FileName(p)
        dot == LastIndexOf(name, ".")
    IN IF dot <= 1 THEN name ELSE SubSeq(name, 1, dot - 1)

\* Path::strip_prefix(base).unwrap_or(path), as a string
StripPrefix(p, base) ==
    IF Len(p) > Len(base) + 1 /\ SubSeq(p, 1, Len(base) + 1) = base \o "/"
    THEN SubSeq(p, Len(base) + 2, Len(p))
    ELSE p

UnwrapOr(o, d) == IF o.some THEN o.val ELSE d

-----------------------------------------------------------------------------
(* The file system.                                                        *)

\* env!("CARGO_MANIFEST_DIR")
manifest_dir == "/r"
packs_dir == Join(manifest_dir, "tests/packs")
\* manifest_dir.join("tests/baseline"), and the older layout's directory in it
default_baseline_dir == Join(manifest_dir, "tests/baseline")
nested_baseline_dir == Join(default_baseline_dir, "baseline")

Dir == [node |-> "dir"]
\* a file fs::read fails on
Unreadable == [node |-> "unreadable"]
\* a file whose bytes are no zstd stream
Corrupt == [node |-> "corrupt"]
\* a file whose bytes decompress to raw
Zst(raw) == [node |-> "zst", raw |-> raw]

\* Path::exists
Exists(p) == p \in DOMAIN fs

\* fs::read
FsRead(p) ==
    IF Exists(p) /\ fs[p].node \in {"corrupt", "zst"} THEN Ok ELSE Err("io")

\* zstd::decode_all of the bytes of p
DecodeAll(p) == IF fs[p].node = "zst" THEN Some(fs[p].raw) ELSE None

\* Decompressed bytes: an opaque blob (a simfile, or anything that is not a
\* baseline), or the JSON array of GoldenChart a baseline holds
Blob(id) == [json |-> FALSE, id |-> id]
Json(charts) == [json |-> TRUE, charts |-> charts]

\* format!("{:x}", md5::compute(raw)): 32 lower-case hex characters
Md5Hex(raw) ==
    IF raw.id = "c1" THEN "d41d8cd98f00b204e9800998ecf8427e"
    ELSE "0cc175b9c0f1b6a831c399e269772661"

\* serde_json::from_slice::<Vec<GoldenChart>>
FromSlice(raw) == IF raw.json THEN Some(raw.charts) ELSE None

\* resolve_baseline_dir
resolve_baseline_dir(default_dir) ==
    LET nested == Join(default_dir, "baseline")
    IN IF Exists(nested) THEN nested ELSE default_dir

-----------------------------------------------------------------------------
(* check_file, step 6: the comparison of the charts.                       *)

\* InScope without the allow-list
InScopeAny(step_type_lower) == TRUE

\* the step_type allow-list, applied to the lower-cased step_type
InScope(step_type_lower) ==
    step_type_lower = "dance-single" \/ step_type_lower = "dance-double"

\* HashMap::new()
EmptyMap == [k \in {} |-> <<>>]

\* map.entry(key).or_default().push(v)
EntryPush(map, key, v) ==
    [k \in DOMAIN map \cup {key} |->
        IF k = key
        THEN (IF key \in DOMAIN map THEN Append(map[key], v) ELSE <<v>>)
        ELSE map[k]]

RECURSIVE golden_map(_, _)
\* the loop that fills golden_map: (step_type, difficulty) |-> <<hash, meter>>*
golden_map(golden_charts, map) ==
    IF golden_charts = <<>> THEN map
    ELSE LET golden == Head(golden_charts)
             step_type_lower == ToAsciiLowercase(golden.step_type)
         IN IF ~InScope(step_type_lower)
            THEN golden_map(Tail(golden_charts), map)
            ELSE LET key == <<step_type_lower, ToAsciiLowercase(golden.difficulty)>>
                 IN golden_map(Tail(golden_charts),
                               EntryPush(map, key, <<golden.hash, golden.meter>>))

RECURSIVE rssp_map_raw_difficulty(_, _)
\* rssp_map with the difficulty of the key left as the engine spells it
rssp_map_raw_difficulty(rssp_charts, map) ==
    IF rssp_charts = <<>> THEN map
    ELSE LET chart == Head(rssp_charts)
             step_type_lower == ToAsciiLowercase(chart.step_type)
         IN IF ~(step_type_lower = "dance-single" \/ step_type_lower = "dance-double")
            THEN rssp_map_raw_difficulty(Tail(rssp_charts), map)
            ELSE LET key == <<step_type_lower, chart.difficulty>>
                 IN rssp_map_raw_difficulty(Tail(rssp_charts),
                                            EntryPush(map, key, chart.hash))

RECURSIVE rssp_map(_, _)
\* the loop that fills rssp_map: (step_type, difficulty) |-> hash*
rssp_map(rssp_charts, map) ==
    IF rssp_charts = <<>> THEN map
    ELSE LET chart == Head(rssp_charts)
             step_type_lower == ToAsciiLowercase(chart.step_type)
         IN IF ~InScope(step_type_lower)
            THEN rssp_map(Tail(rssp_charts), map)
            ELSE LET key == <<step_type_lower, ToAsciiLowercase(chart.difficulty)>>
                 IN rssp_map(Tail(rssp_charts), EntryPush(map, key, chart.hash))

\* KeyLess the other way round: a descending sort
KeyGreater(a, b) ==
    StrLess(b[1], a[1]) \/ (a[1] = b[1] /\ StrLess(b[2], a[2]))

\* a.0.cmp(&b.0) == Less on (String, String)
KeyLess(a, b) ==
    StrLess(a[1], b[1]) \/ (a[1] = b[1] /\ StrLess(a[2], b[2]))

RECURSIVE golden_entries(_)
\* golden_map.into_iter().collect() and sort_by key: the keys are distinct,
\* so the sorted Vec does not depend on the HashMap's iteration order
golden_entries(map) ==
    IF DOMAIN map = {} THEN <<>>
    ELSE LET first == CHOOSE k \in DOMAIN map :
                          \A o \in DOMAIN map : o = k \/ KeyLess(k, o)
             rest == [k \in DOMAIN map \ {first} |-> map[k]]
         IN <<[key |-> first, entries |-> map[first]]>> \o golden_entries(rest)

\* slice::get(idx), idx counted from 0
Get(seq, idx) == IF idx < Len(seq) THEN Some(seq[idx + 1]) ELSE None

Max(a, b) == IF a >= b THEN a ELSE b

\* the line println! writes for index idx of one group (lines 287-308)
IndexLine(step_type, difficulty, expected_entries, actual_hashes, idx) ==
    LET entry == Get(expected_entries, idx)
        expected == IF entry.some THEN Some(entry.val[1]) ELSE None
        actual == Get(actual_hashes, idx)
        meter_label == IF entry.some /\ entry.val[2].some
                       THEN ToString(entry.val[2].val)
                       ELSE ToString(idx + 1)
        status == IF expected.some /\ expected = actual
                  THEN "....ok" ELSE "....MISMATCH"
    IN [k |-> "index", step_type |-> step_type, difficulty |-> difficulty,
        meter_label |-> meter_label, baseline |-> UnwrapOr(expected, "-"),
        rssp |-> UnwrapOr(actual, "-"), status |-> status]

\* the lines of the loop `for idx in 0..count` (lines 285-309)
IndexLines(step_type, difficulty, expected_entries, actual_hashes) ==
    LET count == Max(Len(expected_entries), Len(actual_hashes))
    IN [i \in 1..count |->
          IndexLine(step_type, difficulty, expected_entries, actual_hashes, i - 1)]

\* Matches without the comparison of the lengths: zip stops at the shorter
MatchesZipOnly(expected_entries, actual_hashes) ==
    \A i \in 1..Len(expected_entries) :
        i <= Len(actual_hashes) => expected_entries[i][1] = actual_hashes[i]

\* `matches` (lines 311-315): equal lengths and equal hashes all along the zip
Matches(expected_entries, actual_hashes) ==
    /\ Len(expected_entries) = Len(actual_hashes)
    /\ \A i \in 1..Len(expected_entries) : expected_entries[i][1] = actual_hashes[i]

\* MismatchReport with the two hash lists taken for each other
MismatchReportSwapped(path, key, expected_entries, actual_hashes) ==
    Err([kind |-> "MISMATCH DETECTED", File |-> path, Chart |-> key,
         RSSP |-> [i \in 1..Len(expected_entries) |-> expected_entries[i][1]],
         Golden |-> actual_hashes])

\* the Err of a group that does not match (lines 317-328)
MismatchReport(path, key, expected_entries, actual_hashes) ==
    Err([kind |-> "MISMATCH DETECTED", File |-> path, Chart |-> key,
         RSSP |-> actual_hashes,
         Golden |-> [i \in 1..Len(expected_entries) |-> expected_entries[i][1]]])

\* the Err of a group the engine did not return (lines 277-282)
MissingReport(path, key) ==
    Err([kind |-> "MISSING CHART DETECTED", File |-> path, Expected |-> key])

RECURSIVE CompareLoop(_, _, _, _)
\* the loop over golden_entries (lines 271-331), from the first entry left;
\* out is what has been printed
CompareLoop(path, entries, actual_map, out) ==
    IF entries = <<>> THEN [res |-> Ok, out |-> out]
    ELSE LET step_type == Head(entries).key[1]
             difficulty == Head(entries).key[2]
             expected_entries == Head(entries).entries
         IN IF Head(entries).key \notin DOMAIN actual_map
            THEN [res |-> MissingReport(path, Head(entries).key),
                  out |-> Append(out, [k |-> "missing", step_type |-> step_type,
                                       difficulty |-> difficulty])]
            ELSE LET actual_hashes == actual_map[Head(entries).key]
                     printed == out \o IndexLines(step_type, difficulty,
                                                  expected_entries, actual_hashes)
                 IN IF ~Matches(expected_entries, actual_hashes)
                    THEN [res |-> MismatchReport(path, Head(entries).key,
                                                 expected_entries, actual_hashes),
                          out |-> printed]
                    ELSE CompareLoop(path, Tail(entries), actual_map, printed)

\* step 6 of check_file (lines 236-333)
CompareCharts(path, golden_charts, rssp_charts) ==
    CompareLoop(path, golden_entries(golden_map(golden_charts, EmptyMap)),
                rssp_map(rssp_charts, EmptyMap),
                <<[k |-> "File", path |-> path]>>)

\* golden_path with the shard taken from the end of the digest
golden_path_tail(bdir, file_hash) ==
    Join(Join(bdir, SubSeq(file_hash, Len(file_hash) - 1, Len(file_hash))),
         file_hash \o ".json.zst")

\* baseline_dir.join(&file_hash[0..2]).join(format!("{}.json.zst", file_hash))
golden_path(bdir, file_hash) ==
    Join(Join(bdir, SubSeq(file_hash, 1, 2)), file_hash \o ".json.zst")

\* an early return of check_file with a map_err message
Fail(kind) == [res |-> Err([kind |-> kind]), out |-> <<>>]

\* check_file(path, extension, baseline_dir): the Result and the lines printed
check_file(path, extension, bdir) ==
    IF ~FsRead(path).ok THEN Fail("Failed to read file")
    ELSE IF ~DecodeAll(path).some THEN Fail("Failed to decompress simfile")
    ELSE LET raw_bytes == DecodeAll(path).val
             file_hash == Md5Hex(raw_bytes)
             golden == golden_path(bdir, file_hash)
         IN IF ~Exists(golden)
            THEN [res |-> Err([kind |-> "MISSING BASELINE", File |-> path,
                               Hash |-> file_hash, Expected |-> golden]),
                  out |-> <<>>]
            ELSE IF ~FsRead(golden).ok THEN Fail("Failed to read baseline file")
            ELSE IF ~DecodeAll(golden).some
                 THEN Fail("Failed to decompress baseline json")
            ELSE IF ~FromSlice(DecodeAll(golden).val).some
                 THEN Fail("Failed to parse baseline JSON")
            ELSE IF ~engine[<<raw_bytes.id, extension>>].ok
                 THEN Fail("RSSP Parsing Error")
            ELSE CompareCharts(path, FromSlice(DecodeAll(golden).val).val,
                               engine[<<raw_bytes.id, extension>>].charts)

-----------------------------------------------------------------------------
(* main: discovery, filtering, the run and the report.                     *)

\* what WalkDir yields after packs_dir itself: everything below it
WalkEntries ==
    {p \in DOMAIN fs :
        Len(p) > Len(packs_dir) /\ SubSeq(p, 1, Len(packs_dir) + 1) = packs_dir \o "/"}

\* Path::is_file
IsFile(p) == fs[p].node # "dir"

\* the orders in which a walk may yield the entries
Orders(entries) ==
    {o \in [1..Cardinality(entries) -> entries] :
        \A i, j \in 1..Cardinality(entries) : o[i] = o[j] => i = j}

\* the inner extension of file.sm.zst, lower-cased (lines 49-54)
inner_extension(path) ==
    LET ext == Extension(FileStem(path))
    IN IF ext.some THEN ToAsciiLowercase(ext.val) ELSE ""

\* one iteration of the walk decides whether the entry is a test (lines 37-58)
Eligible(path) ==
    /\ IsFile(path)
    /\ UnwrapOr(Extension(path), "") = "zst"
    /\ inner_extension(path) \in {"sm", "ssc"}

\* TestCase { name, path, extension } (lines 61-70)
TestCase(path) ==
    [name |-> StripPrefix(path, packs_dir), path |-> path,
     extension |-> inner_extension(path)]

RECURSIVE Collect(_)
\* the loop over the walk (lines 36-71), for the entries in the order walked
Collect(walked) ==
    IF walked = <<>> THEN <<>>
    ELSE (IF Eligible(Head(walked)) THEN <<TestCase(Head(walked))>> ELSE <<>>)
         \o Collect(Tail(walked))

RECURSIVE InsertByName(_, _)
\* puts t after every element that is not greater than it
InsertByName(sorted, t) ==
    IF sorted = <<>> THEN <<t>>
    ELSE IF StrLess(t.name, Head(sorted).name) THEN <<t>> \o sorted
    ELSE <<Head(sorted)>> \o InsertByName(Tail(sorted), t)

\* SortByName left out: the order of the walk
Unsorted(ts) == ts

RECURSIVE SortByName(_)
\* tests.sort_by(|a, b| a.name.cmp(&b.name)): a stable sort (line 74)
SortByName(ts) ==
    IF ts = <<>> THEN <<>>
    ELSE InsertByName(SortByName(SubSeq(ts, 1, Len(ts) - 1)), ts[Len(ts)])

\* matches_filter without args.exact
matches_filter_substring(name) ==
    IF ~args.filter.some THEN TRUE ELSE Contains(name, args.filter.val)

\* the first closure of the filter (lines 79-88)
matches_filter(name) ==
    IF ~args.filter.some THEN TRUE
    ELSE IF args.exact THEN name = args.filter.val
    ELSE Contains(name, args.filter.val)

\* the second closure of the filter (line 89)
not_skipped(name) ==
    \A i \in 1..Len(args.skip) : ~Contains(name, args.skip[i])

\* the two filters and `if args.ignored { tests.clear() }` (lines 77-95)
apply_filters(ts) ==
    LET Keep(t) == matches_filter(t.name) /\ not_skipped(t.name)
    IN IF args.ignored THEN <<>> ELSE SelectSeq(ts, Keep)

\* exit_status decided by num_passed
exit_status_by_passed(passed, failed) == IF passed # 0 THEN 0 ELSE 101

\* the process's exit status after the run (lines 160-169)
exit_status(passed, failed) == IF failed = 0 THEN 0 ELSE 101

\* the line of a test (lines 121 and 125)
TestLine(name, ok) ==
    [k |-> "test", name |-> name, status |-> IF ok THEN "ok" ELSE "FAILED"]

Blank == [k |-> "blank"]

\* the list under "failures:" (lines 140-143)
failure_list(fails) ==
    <<[k |-> "failures:"]>> \o [i \in 1..Len(fails) |-> [k |-> "failed", name |-> fails[i].name]]

\* failure_block with the name between quotes as it is, as "{}" prints it
failure_block_display(failure) ==
    <<Blank,
      [k |-> "header", name |-> failure.name],
      [k |-> "message", message |-> failure.message],
      Blank,
      [k |-> "rerun", arg |-> "\"" \o failure.name \o "\""]>>

\* the detailed block of one failure (lines 146-155); every message
\* check_file returns is non-empty after trim()
failure_block(failure) ==
    <<Blank,
      [k |-> "header", name |-> failure.name],
      [k |-> "message", message |-> failure.message],
      Blank,
      [k |-> "rerun", arg |-> FormatDebug(failure.name)]>>

RECURSIVE failure_blocks(_)
\* the second loop over the failures (lines 145-156)
failure_blocks(fails) ==
    IF fails = <<>> THEN <<>>
    ELSE failure_block(Head(fails)) \o failure_blocks(Tail(fails))

\* lines 20-31: the paths, and the early return when tests/packs is missing
Setup ==
    /\ pc = "start"
    /\ baseline_dir' = resolve_baseline_dir(default_baseline_dir)
    /\ IF ~Exists(packs_dir)
       THEN /\ stdout' = Append(stdout, [k |-> "no packs"])
            /\ pc' = "exited"
            /\ exit_code' = Some(0)
       ELSE /\ pc' = "discover"
            /\ UNCHANGED <<stdout, exit_code>>
    /\ UNCHANGED <<fs, engine, args, tests, selected, next, num_passed,
                   num_failed, failures, result>>

\* lines 33-74: the walk, in whatever order the file system gives, and the sort
Discover ==
    /\ pc = "discover"
    /\ \E walked \in Orders(WalkEntries) :
          tests' = SortByName(Collect(<<packs_dir>> \o walked))
    /\ pc' = "filter"
    /\ UNCHANGED <<fs, engine, args, baseline_dir, selected, next, num_passed,
                   num_failed, failures, stdout, exit_code, result>>

\* lines 76-95: the CLI filters
Filter ==
    /\ pc = "filter"
    /\ selected' = apply_filters(tests)
    /\ pc' = IF args.list THEN "list" ELSE "run"
    /\ UNCHANGED <<fs, engine, args, baseline_dir, tests, next, num_passed,
                   num_failed, failures, stdout, exit_code, result>>

\* lines 97-102: list mode prints the names and returns
List ==
    /\ pc = "list"
    /\ stdout' = stdout \o [i \in 1..Len(selected) |-> [k |-> "name", name |-> selected[i].name]]
    /\ pc' = "exited"
    /\ exit_code' = Some(0)
    /\ UNCHANGED <<fs, engine, args, baseline_dir, tests, selected, next,
                   num_passed, num_failed, failures, result>>

\* lines 104-109: the header and the counters
RunHeader ==
    /\ pc = "run"
    /\ stdout' = Append(stdout, [k |-> "running", n |-> Len(selected)])
    /\ num_passed' = 0
    /\ num_failed' = 0
    /\ failures' = <<>>
    /\ pc' = "loop"
    /\ UNCHANGED <<fs, engine, args, baseline_dir, tests, selected, next,
                   exit_code, result>>

\* lines 111-136: one iteration of `for test in tests`
RunTest ==
    /\ pc = "loop"
    /\ next < Len(selected)
    /\ LET test == selected[next + 1]
           r == check_file(test.path, test.extension, baseline_dir)
       IN /\ result' = Some(r.res)
          /\ stdout' = (stdout \o r.out) \o <<TestLine(test.name, r.res.ok)>>
          /\ num_passed' = IF r.res.ok THEN num_passed + 1 ELSE num_passed
          /\ num_failed' = IF r.res.ok THEN num_failed ELSE num_failed + 1
          /\ failures' = IF r.res.ok THEN failures
                         ELSE Append(failures, [name |-> test.name,
                                                message |-> r.res.msg])
    /\ next' = next + 1
    /\ UNCHANGED <<fs, engine, args, pc, baseline_dir, tests, selected, exit_code>>

\* lines 138-158: after the loop, the failures and their blocks
Report ==
    /\ pc = "loop"
    /\ next = Len(selected)
    /\ stdout' = stdout \o <<Blank>>
                 \o (IF failures # <<>>
                     THEN failure_list(failures) \o failure_blocks(failures) \o <<Blank>>
                     ELSE <<>>)
    /\ pc' = "summary"
    /\ UNCHANGED <<fs, engine, args, baseline_dir, tests, selected, next,
                   num_passed, num_failed, failures, exit_code, result>>

\* lines 160-169: the result line and the exit status
Summary ==
    /\ pc = "summary"
    /\ stdout' = Append(stdout, [k |-> "result", ok |-> num_failed = 0,
                                 passed |-> num_passed, failed |-> num_failed])
    /\ exit_code' = Some(exit_status(num_passed, num_failed))
    /\ pc' = "exited"
    /\ UNCHANGED <<fs, engine, args, baseline_dir, tests, selected, next,
                   num_passed, num_failed, failures, result>>

Next ==
    \/ Setup
    \/ Discover
    \/ Filter
    \/ List
    \/ RunHeader
    \/ RunTest
    \/ Report
    \/ Summary

-----------------------------------------------------------------------------
(* The inputs a check of check_file draws from.                            *)

\* <<step_type, difficulty>> as the files spell them: two in-scope groups
\* (one of them spelt in two ways) and an out-of-scope step_type
Spellings ==
    {<<"dance-single", "Hard">>, <<"dance-single", "hard">>,
     <<"Dance-Double", "Hard">>, <<"pump-single", "Hard">>}
Hashes == {"abc123", "xyz999"}

\* GoldenChart values: the meter is absent, or 12 on one dance-single chart
GoldenCharts ==
    {[step_type |-> sp[1], difficulty |-> sp[2], hash |-> h, meter |-> None] :
        sp \in Spellings, h \in Hashes}
    \cup {[step_type |-> "dance-single", difficulty |-> "Hard", hash |-> "abc123",
           meter |-> Some(12)]}

\* the charts rssp::compute_all_hashes returns
RsspCharts ==
    {[step_type |-> sp[1], difficulty |-> sp[2], hash |-> h] :
        sp \in Spellings, h \in Hashes}

\* the sequences over pool of length at most n
SeqsUpTo(pool, n) == UNION {[1..k -> pool] : k \in 0..n}

\* <<baseline charts, engine charts>> with at most n entries together
ChartPairs(n) ==
    UNION {{<<g, r>> : g \in [1..k -> GoldenCharts],
                       r \in SeqsUpTo(RsspCharts, n - k)} : k \in 0..n}

Contents == {"c1", "c2"}
Extensions == {"sm", "ssc"}

EngineOk(charts) == [ok |-> TRUE, charts |-> charts]
EngineErr == [ok |-> FALSE]

\* an engine that fails on everything but <<id, ext>>
EngineWith(id, ext, outcome) ==
    [q \in Contents \X Extensions |->
        IF q = <<id, ext>> THEN outcome ELSE EngineErr]

\* the file system that holds exactly the <<path, node>> pairs of nodes
MkFs(nodes) ==
    [p \in {n[1] : n \in nodes} |-> (CHOOSE n \in nodes : n[1] = p)[2]]

\* where the baseline of a digest belongs under a baseline root
BaselinePath(root, digest) ==
    Join(Join(root, SubSeq(digest, 1, 2)), digest \o ".json.zst")

\* the same file put into the shard of the digest's last two characters
MisshardedPath(root, digest) ==
    Join(Join(root, SubSeq(digest, Len(digest) - 1, Len(digest))),
         digest \o ".json.zst")

\* the simfile a check of check_file alone is about
CheckPath == Join(packs_dir, "a/x.sm.zst")
CheckExtension == "sm"

BaseDirs(nested) ==
    {<<packs_dir, Dir>>, <<default_baseline_dir, Dir>>}
    \cup (IF nested THEN {<<nested_baseline_dir, Dir>>} ELSE {})

\* file systems and engines that vary the charts: the simfile is readable and
\* its baseline is where it belongs
ChartWorlds ==
    {[fs |-> MkFs(BaseDirs(FALSE)
                  \cup {<<CheckPath, Zst(Blob("c1"))>>,
                        <<BaselinePath(default_baseline_dir, Md5Hex(Blob("c1"))),
                          Zst(Json(pair[1]))>>}),
      engine |-> EngineWith("c1", CheckExtension, EngineOk(pair[2]))] :
        pair \in ChartPairs(MaxCharts)}

\* what a file may hold
SimfileNodes == {Unreadable, Corrupt, Zst(Blob("c1")), Zst(Blob("c2"))}
BaselineNodes ==
    {Dir, Unreadable, Corrupt, Zst(Blob("c1")), Zst(Json(<<>>)),
     Zst(Json(<<[step_type |-> "dance-single", difficulty |-> "Hard",
                 hash |-> "abc123", meter |-> None]>>))}

\* where a baseline file may lie
BaselinePlaces(nested) ==
    LET roots == {default_baseline_dir}
                 \cup (IF nested THEN {nested_baseline_dir} ELSE {})
    IN {BaselinePath(root, Md5Hex(Blob(id))) : root \in roots, id \in Contents}
       \cup {MisshardedPath(root, Md5Hex(Blob(id))) : root \in roots, id \in Contents}

\* file systems and engines that vary the files: what the simfile holds,
\* whether the nested baseline directory exists, where a baseline file lies
\* and what it holds, what the engine answers
FileWorlds ==
    UNION {
        {[fs |-> MkFs(BaseDirs(nested) \cup {<<CheckPath, simfile>>} \cup baseline),
          engine |-> EngineWith(id, CheckExtension, outcome)] :
            simfile \in SimfileNodes, id \in Contents,
            outcome \in {EngineErr, EngineOk(<<>>),
                         EngineOk(<<[step_type |-> "dance-single",
                                     difficulty |-> "hard", hash |-> "abc123"]>>)},
            baseline \in {{}} \cup {{<<place, node>>} :
                                      place \in BaselinePlaces(nested),
                                      node \in BaselineNodes}} :
        nested \in BOOLEAN}

-----------------------------------------------------------------------------
(* The inputs a run of main draws from.                                    *)

\* files that may lie under tests/packs: three simfiles (one with an upper
\* case pack and a quote in its name, one with an upper-case inner
\* extension) and two files that are no tests
PackFiles ==
    {"a/x.sm.zst", "a/y.SSC.zst", "B/x\"q.sm.zst", "a/n.txt.zst", "B/x.sm"}

\* the subsets of S with at most n elements
SubsetsUpTo(S, n) == {T \in SUBSET S : Cardinality(T) <= n}

G1 == [step_type |-> "dance-single", difficulty |-> "Hard", hash |-> "abc123",
       meter |-> None]
R1 == [step_type |-> "dance-single", difficulty |-> "hard", hash |-> "abc123"]
R2 == [step_type |-> "dance-single", difficulty |-> "hard", hash |-> "xyz999"]

\* what the baseline directory holds for one content and what the engine
\* answers on it: one scenario per outcome of check_file
Scenario(id, kind) ==
    LET place == BaselinePath(default_baseline_dir, Md5Hex(Blob(id)))
    IN [baseline |-> IF kind = "missing baseline" THEN {}
                     ELSE IF kind = "unreadable baseline" THEN {<<place, Unreadable>>}
                     ELSE IF kind = "corrupt baseline" THEN {<<place, Corrupt>>}
                     ELSE IF kind = "invalid baseline" THEN {<<place, Zst(Blob("c1"))>>}
                     ELSE {<<place, Zst(Json(<<G1>>))>>},
        outcome |-> IF kind = "engine failure" THEN EngineErr
                    ELSE IF kind = "missing chart" THEN EngineOk(<<>>)
                    ELSE IF kind = "mismatch" THEN EngineOk(<<R2>>)
                    ELSE EngineOk(<<R1>>)]

ScenarioKinds ==
    {"pass", "mismatch", "missing chart", "engine failure", "missing baseline",
     "unreadable baseline", "corrupt baseline", "invalid baseline"}

\* the file system with the given simfiles and the engine, for one scenario
\* per content
MainWorld(simfiles, kind1, kind2) ==
    [fs |-> MkFs(BaseDirs(FALSE) \cup simfiles
                 \cup Scenario("c1", kind1).baseline \cup Scenario("c2", kind2).baseline),
     engine |-> [q \in Contents \X Extensions |->
                    IF q[1] = "c1" THEN Scenario("c1", kind1).outcome
                    ELSE Scenario("c2", kind2).outcome]]

\* every way to fill the simfiles among names with what a simfile may hold;
\* the files that are no tests hold c1
Fillings(names) ==
    LET simfiles == {n \in names : Contains(n, ".zst") /\ ~Contains(n, ".txt")}
    IN {{<<Join(packs_dir, n), IF n \in simfiles THEN f[n] ELSE Zst(Blob("c1"))>> :
            n \in names} : f \in [simfiles -> SimfileNodes]}

\* worlds that vary the outcomes of the tests: every scenario for c1, while
\* c2 has a baseline the engine does not reproduce
OutcomeWorlds ==
    UNION {{MainWorld(simfiles, kind1, "mismatch") :
                simfiles \in Fillings(names), kind1 \in ScenarioKinds} :
           names \in SubsetsUpTo(PackFiles, MaxFiles)}

\* worlds that vary the files only: x holds c1, which passes, y holds c2,
\* which does not, the rest is corrupt
FilterWorlds ==
    {MainWorld({<<Join(packs_dir, n),
                  IF n = "a/x.sm.zst" THEN Zst(Blob("c1"))
                  ELSE IF n = "a/y.SSC.zst" THEN Zst(Blob("c2"))
                  ELSE Corrupt>> : n \in names}, "pass", "mismatch") :
        names \in SubsetsUpTo(PackFiles, MaxFiles)}

\* a world without tests/packs
NoPacksWorld ==
    [fs |-> MkFs({<<default_baseline_dir, Dir>>}),
     engine |-> [q \in Contents \X Extensions |-> EngineErr]]

NoArgs == [filter |-> None, exact |-> FALSE, skip |-> <<>>, ignored |-> FALSE,
           list |-> FALSE]

\* the command lines: a filter, --exact, --skip (repeatable), --ignored, --list
ArgsPool ==
    [filter : {None, Some(""), Some("x"), Some("a/"), Some("a/x.sm.zst")},
     exact : BOOLEAN,
     skip : {<<>>, <<"y">>, <<"q", "SSC">>},
     ignored : BOOLEAN,
     list : BOOLEAN]

Init ==
    /\ \E w \in OutcomeWorlds \cup (FilterWorlds \cup {NoPacksWorld}) :
          /\ fs = w.fs
          /\ engine = w.engine
          /\ args \in (IF w \in FilterWorlds \cup {NoPacksWorld} THEN ArgsPool ELSE {NoArgs})
    /\ pc = "start"
    /\ baseline_dir = default_baseline_dir
    /\ tests = <<>>
    /\ selected = <<>>
    /\ next = 0
    /\ num_passed = 0
    /\ num_failed = 0
    /\ failures = <<>>
    /\ stdout = <<>>
    /\ exit_code = None
    /\ result = None

Spec == Init /\ [][Next]_vars

-----------------------------------------------------------------------------
(* check_file on its own: one call, on every input of the bounded sets.    *)

InitCheck ==
    /\ \E w \in ChartWorlds \cup FileWorlds : fs = w.fs /\ engine = w.engine
    /\ args = NoArgs
    /\ pc = "check_file"
    /\ baseline_dir = resolve_baseline_dir(default_baseline_dir)
    /\ tests = <<>>
    /\ selected = <<>>
    /\ next = 0
    /\ num_passed = 0
    /\ num_failed = 0
    /\ failures = <<>>
    /\ stdout = <<>>
    /\ exit_code = None
    /\ result = None

\* let res = check_file(&path, &extension, &baseline_dir)
CallCheckFile ==
    /\ pc = "check_file"
    /\ LET r == check_file(CheckPath, CheckExtension, baseline_dir)
       IN /\ result' = Some(r.res)
          /\ stdout' = stdout \o r.out
    /\ pc' = "returned"
    /\ UNCHANGED <<fs, engine, args, baseline_dir, tests, selected, next,
                   num_passed, num_failed, failures, exit_code>>

NextCheck == CallCheckFile

SpecCheck == InitCheck /\ [][NextCheck]_vars


-----------------------------------------------------------------------------
(* What the properties of check_file are stated in: the baseline and the   *)
(* engine's answer as the file system holds them, and their groups.        *)

\* the baseline root: the nested baseline directory when there is one
BaselineRoot ==
    IF nested_baseline_dir \in DOMAIN fs THEN nested_baseline_dir
    ELSE default_baseline_dir

\* the simfile is readable and decompresses
SimfileDecodes == fs[CheckPath].node = "zst"

\* <baseline_root>/<first two hex characters of the digest>/<digest>.json.zst
ResolvedBaseline == BaselinePath(BaselineRoot, Md5Hex(fs[CheckPath].raw))

EngineAnswer == engine[<<fs[CheckPath].raw.id, CheckExtension>>]

\* the baseline resolves and parses and the engine call succeeds
Comparable ==
    /\ SimfileDecodes
    /\ ResolvedBaseline \in DOMAIN fs
    /\ fs[ResolvedBaseline].node = "zst"
    /\ fs[ResolvedBaseline].raw.json
    /\ EngineAnswer.ok

\* the stored baseline entries and the computed entries
StoredCharts == fs[ResolvedBaseline].raw.charts
ComputedCharts == EngineAnswer.charts

AllowList == {"dance-single", "dance-double"}

\* the case-folded form of every step_type and difficulty of the inputs
Folded ==
    [w \in {sp[1] : sp \in Spellings} \cup {sp[2] : sp \in Spellings} |->
        ToAsciiLowercase(w)]

\* (case-folded step_type, case-folded difficulty)
GroupKey(c) == <<Folded[c.step_type], Folded[c.difficulty]>>

\* the in-scope groups of a list of entries
Groups(charts) ==
    {GroupKey(charts[i]) : i \in {j \in 1..Len(charts) : GroupKey(charts[j])[1] \in AllowList}}

\* the hashes of the entries of one group, in their original relative order
GroupHashes(charts, key) ==
    LET InGroup(c) == GroupKey(c) = key
        members == SelectSeq(charts, InGroup)
    IN [i \in 1..Len(members) |-> members[i].hash]

\* the entries of a list that are in scope
InScopeOnly(charts) ==
    LET Allowed(c) == GroupKey(c)[1] \in AllowList
    IN SelectSeq(charts, Allowed)

\* a baseline group the engine did not return
Absent(key) == key \in Groups(StoredCharts) \ Groups(ComputedCharts)

\* a baseline group the engine returned with another hash sequence
Differs(key) ==
    /\ key \in Groups(StoredCharts) \cap Groups(ComputedCharts)
    /\ GroupHashes(StoredCharts, key) # GroupHashes(ComputedCharts, key)

\* lexicographic order of the group keys
KeyBefore(a, b) == StrLess(a[1], b[1]) \/ (a[1] = b[1] /\ StrLess(a[2], b[2]))

FailingGroups == {k \in Groups(StoredCharts) : Absent(k) \/ Differs(k)}

\* the first failing group in the sorted order of the keys
FirstFailing ==
    CHOOSE k \in FailingGroups : \A o \in FailingGroups : o = k \/ KeyBefore(k, o)

Returned == pc = "returned"
Verdict == result.val
IsFail(kind) == ~Verdict.ok /\ Verdict.msg.kind = kind

C2_AbsentGroupAlwaysMissingChart ==
    (Returned /\ Comparable /\ \E key \in Groups(StoredCharts) : Absent(key)) =>
        IsFail("MISSING CHART DETECTED")

\* C2: a baseline group absent from the engine's output makes the verdict
\* Fail; the kind is MissingChart exactly when the first failing group in
\* sorted key order is an absent one, and the report then names that group.
C2_AbsentGroupFails ==
    (Returned /\ Comparable /\ \E key \in Groups(StoredCharts) : Absent(key)) =>
        /\ ~Verdict.ok
        /\ IsFail("MISSING CHART DETECTED") <=> Absent(FirstFailing)
        /\ IsFail("MISSING CHART DETECTED") => Verdict.msg.Expected = FirstFailing
        /\ ~Absent(FirstFailing) => IsFail("MISMATCH DETECTED")

\* an absent group reported as MissingChart while a later group differs
C2_Witness ==
    /\ Returned /\ Comparable /\ IsFail("MISSING CHART DETECTED")
    /\ Absent(Verdict.msg.Expected)
    /\ \E key \in Groups(StoredCharts) : Differs(key)

\* C3 as claimed: a group whose hash sequence differs makes the verdict Fail
\* with kind Mismatch, reporting the stored and the computed hashes of it.
C3_DifferingGroupAlwaysMismatch ==
    (Returned /\ Comparable) =>
        \A key \in Groups(StoredCharts) :
            Differs(key) =>
                /\ IsFail("MISMATCH DETECTED")
                /\ Verdict.msg.Golden = GroupHashes(StoredCharts, key)
                /\ Verdict.msg.RSSP = GroupHashes(ComputedCharts, key)

\* C3: a group whose hash sequence differs makes the verdict Fail; the kind
\* is Mismatch exactly when the first failing group in sorted key order is
\* one the engine returned, and the report then holds the stored and the
\* computed hashes of that group, as they are.
C3_DifferingGroupFails ==
    (Returned /\ Comparable /\ \E key \in Groups(StoredCharts) : Differs(key)) =>
        /\ ~Verdict.ok
        /\ IsFail("MISMATCH DETECTED") <=> Differs(FirstFailing)
        /\ IsFail("MISMATCH DETECTED") =>
              /\ Verdict.msg.Chart = FirstFailing
              /\ Verdict.msg.Golden = GroupHashes(StoredCharts, FirstFailing)
              /\ Verdict.msg.RSSP = GroupHashes(ComputedCharts, FirstFailing)

\* a mismatch reported for a group with several entries on one side
C3_Witness ==
    /\ Returned /\ Comparable /\ IsFail("MISMATCH DETECTED")
    /\ Differs(Verdict.msg.Chart)
    /\ Len(Verdict.msg.Golden) # Len(Verdict.msg.RSSP)
    /\ Verdict.msg.Golden # <<>> /\ Verdict.msg.RSSP # <<>>

\* C4: entries whose step_type is outside the allow-list never influence the
\* verdict: the run returns what a run on the same baseline and engine output
\* without their out-of-scope entries returns, so two runs that differ only in
\* out-of-scope entries return the same.
C4_OutOfScopeNeverInfluences ==
    (Returned /\ Comparable) =>
        Verdict = CompareCharts(CheckPath, InScopeOnly(StoredCharts),
                                InScopeOnly(ComputedCharts)).res

\* a failing run with out-of-scope entries of different hashes on both sides
C4_Witness ==
    /\ Returned /\ Comparable /\ ~Verdict.ok
    /\ \E i \in 1..Len(StoredCharts), j \in 1..Len(ComputedCharts) :
          /\ GroupKey(StoredCharts[i])[1] \notin AllowList
          /\ GroupKey(ComputedCharts[j])[1] \notin AllowList
          /\ StoredCharts[i].hash # ComputedCharts[j].hash

\* C5: when the simfile decompresses and no file exists at the resolved
\* baseline path, the verdict is Fail with kind MissingBaseline, whatever the
\* engine would compute.
C5_NoBaselineIsMissingBaseline ==
    (Returned /\ SimfileDecodes /\ ResolvedBaseline \notin DOMAIN fs) =>
        /\ IsFail("MISSING BASELINE")
        /\ Verdict.msg.Expected = ResolvedBaseline

\* a missing baseline although the engine succeeds and a baseline of the
\* digest lies somewhere else under the baseline directory
C5_Witness ==
    /\ Returned /\ SimfileDecodes /\ ResolvedBaseline \notin DOMAIN fs
    /\ IsFail("MISSING BASELINE")
    /\ EngineAnswer.ok
    /\ \E p \in DOMAIN fs : Contains(p, Md5Hex(fs[CheckPath].raw)) /\ fs[p].node = "zst"

\* the lines check_file printed for the indices of one group
LinesOf(key) ==
    LET OfGroup(l) == l.k = "index" /\ l.step_type = key[1] /\ l.difficulty = key[2]
    IN SelectSeq(stdout, OfGroup)

\* C10: within a group present on both sides the comparison is positional up
\* to the longer length, an index present on one side only is a non-match,
\* and check_file fails the group if and only if an index line says MISMATCH.
C10_GroupAgreesWithIndices ==
    (Returned /\ Comparable) =>
        /\ IsFail("MISMATCH DETECTED") <=>
              \E i \in 1..Len(stdout) :
                  stdout[i].k = "index" /\ stdout[i].status = "....MISMATCH"
        /\ \A key \in Groups(StoredCharts) \cap Groups(ComputedCharts) :
              LET stored == GroupHashes(StoredCharts, key)
                  computed == GroupHashes(ComputedCharts, key)
                  lines == LinesOf(key)
              IN lines # <<>> =>
                    /\ Len(lines) = Max(Len(stored), Len(computed))
                    /\ \A i \in 1..Len(lines) :
                          /\ lines[i].baseline = (IF i <= Len(stored) THEN stored[i] ELSE "-")
                          /\ lines[i].rssp = (IF i <= Len(computed) THEN computed[i] ELSE "-")
                          /\ lines[i].status = "....MISMATCH" <=>
                                (i > Len(stored) \/ i > Len(computed) \/ stored[i] # computed[i])
                    /\ (IsFail("MISMATCH DETECTED") /\ Verdict.msg.Chart = key) <=>
                          \E i \in 1..Len(lines) : lines[i].status = "....MISMATCH"

\* a group whose common indices all match and whose longer side has one more
C10_Witness ==
    /\ Returned /\ Comparable /\ IsFail("MISMATCH DETECTED")
    /\ \E i, j \in 1..Len(stdout) :
          /\ stdout[i].k = "index" /\ stdout[i].status = "....ok"
          /\ stdout[j].k = "index" /\ stdout[j].status = "....MISMATCH"
          /\ "-" \in {stdout[j].baseline, stdout[j].rssp}
          /\ stdout[i].step_type = stdout[j].step_type

-----------------------------------------------------------------------------
(* What the properties of main are stated in.                              *)

\* p occurs in s: s is some prefix, then p, then the rest
IsSubstring(p, s) ==
    \E i \in 0..Len(s) : \E j \in i..Len(s) : SubSeq(s, i + 1, j) = p

\* the simfiles under tests/packs: <anything>.<sm|ssc, in any case>.zst
IsFixture(path) ==
    LET name == FileName(path)
        n == Len(name)
    IN /\ fs[path].node # "dir"
       /\ Len(path) > Len(packs_dir) + 1
       /\ SubSeq(path, 1, Len(packs_dir) + 1) = packs_dir \o "/"
       /\ \E inner \in {"sm", "ssc"} :
             /\ n >= Len(inner) + 6
             /\ SubSeq(name, n - 3, n) = ".zst"
             /\ ToAsciiLowercase(SubSeq(name, n - 3 - Len(inner), n - 4)) = inner
             /\ Char(name, n - 4 - Len(inner)) = "."

\* the display_name of a fixture: its path relative to tests/packs
DisplayName(path) == SubSeq(path, Len(packs_dir) + 2, Len(path))

Discovered == {DisplayName(p) : p \in {q \in DOMAIN fs : IsFixture(q)}}

\* the discovered fixtures that pass the filter and no skip
Survivors ==
    IF args.ignored THEN {}
    ELSE {n \in Discovered :
            /\ args.filter.some =>
                  IF args.exact THEN n = args.filter.val
                  ELSE IsSubstring(args.filter.val, n)
            /\ \A i \in 1..Len(args.skip) : ~IsSubstring(args.skip[i], n)}

Names(ts) == [i \in 1..Len(ts) |-> ts[i].name]

Ascending(names) ==
    \A i, j \in 1..Len(names) : i < j => StrLess(names[i], names[j])

IsTestLine(l) == l.k = "test"
TestLines == SelectSeq(stdout, IsTestLine)

\* main went into the run (no list mode, tests/packs exists)
InRun == pc \in {"loop", "summary"} \/ (pc = "exited" /\ packs_dir \in DOMAIN fs /\ ~args.list)

\* what the check of a test returns
Outcome(t) == check_file(t.path, t.extension, baseline_dir).res

\* what the checks of the first n surviving tests return
Outcomes(n) == [i \in 1..n |-> Outcome(selected[i])]

RECURSIVE FailedAmong(_, _)
\* the failed ones of the first n surviving tests, in the order of their
\* checks, each with what its own check returned
FailedAmong(outcomes, n) ==
    IF n = 0 THEN <<>>
    ELSE FailedAmong(outcomes, n - 1)
         \o (IF outcomes[n].ok THEN <<>>
             ELSE <<[name |-> selected[n].name, message |-> outcomes[n].msg]>>)

\* C6: a failure of any kind is recorded against its fixture only and never
\* ends the run: the fixtures that survive filtering are checked once each,
\* in ascending display_name order, and each gets one ok/FAILED line that
\* says what its own check returned.
C6_EveryFixtureCheckedOnce ==
    InRun =>
        LET outcomes == Outcomes(next)
        IN
        /\ Ascending(Names(selected))
        /\ {selected[i].name : i \in 1..Len(selected)} = Survivors
        /\ Len(TestLines) = next
        /\ next <= Len(selected)
        /\ \A i \in 1..next :
              /\ TestLines[i].name = selected[i].name
              /\ TestLines[i].status = (IF outcomes[i].ok THEN "ok" ELSE "FAILED")
        /\ failures = FailedAmong(outcomes, next)
        /\ num_failed = Len(failures)
        /\ num_passed + num_failed = next
        /\ pc \in {"summary", "exited"} => next = Len(selected)

\* a run that went on after a failure: a failed test followed by a passed one
C6_Witness ==
    /\ pc = "exited" /\ InRun
    /\ \E i, j \in 1..Len(TestLines) :
          i < j /\ TestLines[i].status = "FAILED" /\ TestLines[j].status = "ok"
    /\ Len(TestLines) = 3

\* C7: the exit status is 101 if and only if an executed fixture failed, and
\* 0 in every other run that ends: all passed, nothing survived filtering,
\* list mode, no tests/packs.
C7_ExitStatus ==
    /\ pc # "exited" => exit_code = None
    /\ pc = "exited" =>
          /\ exit_code.some
          /\ exit_code.val \in {0, 101}
          /\ exit_code.val = 101 <=>
                (InRun /\ \E i \in 1..Len(selected) : ~Outcome(selected[i]).ok)
          /\ exit_code.val = 101 <=>
                \E i \in 1..Len(stdout) : stdout[i].k = "test" /\ stdout[i].status = "FAILED"

\* exit status 101 although some test passed
C7_Witness ==
    /\ pc = "exited" /\ exit_code = Some(101)
    /\ num_passed > 0

\* the index of the first line of kind k, 0 when there is none
FirstLine(k) ==
    LET hits == {i \in 1..Len(stdout) : stdout[i].k = k}
    IN IF hits = {} THEN 0 ELSE CHOOSE i \in hits : \A j \in hits : i <= j

\* the index of the last line of kind k, 0 when there is none
LastLine(k) ==
    LET hits == {i \in 1..Len(stdout) : stdout[i].k = k}
    IN IF hits = {} THEN 0 ELSE CHOOSE i \in hits : \A j \in hits : j <= i

\* the lines check_file prints lie between the line of the test before and
\* the line of their own test
LinesStream ==
    \A i \in 1..Len(stdout) :
        stdout[i].k \in {"File", "index", "missing"} =>
            \E j \in (i + 1)..Len(stdout) :
                /\ stdout[j].k = "test"
                /\ \A m \in i..(j - 1) : stdout[m].k # "test"
                /\ \E n \in 1..i :
                      /\ stdout[n].k = "File"
                      /\ DisplayName(stdout[n].path) = stdout[j].name
                      /\ \A m \in n..j - 1 : stdout[m].k # "test"

RECURSIVE ReadBody(_)
\* reads the text after the opening quote of a string literal up to its
\* closing quote, which must end the text; a backslash quotes the character
\* after it
ReadBody(text) ==
    IF text = "" THEN None
    ELSE IF Head(text) = "\"" THEN (IF Len(text) = 1 THEN Some("") ELSE None)
    ELSE IF Head(text) = "\\"
         THEN (IF Len(text) < 2 THEN None
               ELSE LET rest == ReadBody(SubSeq(text, 3, Len(text)))
                    IN IF rest.some THEN Some(Char(text, 2) \o rest.val) ELSE None)
    ELSE LET rest == ReadBody(Tail(text))
         IN IF rest.some THEN Some(Head(text) \o rest.val) ELSE None

\* the string a quoted string literal denotes, None when text is not one
ReadLiteral(text) ==
    IF text # "" /\ Head(text) = "\"" THEN ReadBody(Tail(text)) ELSE None

\* C8 as claimed: after the last fixture the summary count comes first, then
\* the list of failing identifiers, then the blocks.
C8_SummaryThenListThenBlocks ==
    (pc = "exited" /\ InRun /\ failures # <<>>) =>
        /\ LastLine("test") < FirstLine("result")
        /\ FirstLine("result") < FirstLine("failures:")
        /\ LastLine("failed") < FirstLine("header")

\* C8: each fixture's line is printed when its check is over and before the
\* next check starts; after the last fixture come the list of the failing
\* identifiers, then one block per failure in execution order (identifier,
\* message, re-run instruction with the identifier as a quoted string
\* literal), and the summary count is the last line.
C8_ListThenBlocksThenSummary ==
    /\ LinesStream
    /\ (pc = "exited" /\ InRun) =>
          LET n == Len(failures)
              h == FirstLine("failures:")
          IN /\ stdout[Len(stdout)].k = "result"
             /\ FirstLine("result") = Len(stdout)
             /\ stdout[Len(stdout)].passed + stdout[Len(stdout)].failed = Len(selected)
             /\ stdout[Len(stdout)].failed = n
             /\ n = 0 => h = 0 /\ FirstLine("header") = 0
             /\ n > 0 =>
                   /\ h = LastLine("test") + 2
                   /\ Len(stdout) = h + n + 5 * n + 2
                   /\ \A j \in 1..n :
                         LET b == h + n + 5 * (j - 1)
                         IN /\ stdout[h + j] = [k |-> "failed", name |-> failures[j].name]
                            /\ stdout[b + 2] = [k |-> "header", name |-> failures[j].name]
                            /\ stdout[b + 3] = [k |-> "message", message |-> failures[j].message]
                            /\ stdout[b + 5].k = "rerun"
                            /\ ReadLiteral(stdout[b + 5].arg) = Some(failures[j].name)
                   /\ Names(failures) =
                         LET Failed(l) == l.k = "test" /\ l.status = "FAILED"
                         IN Names(SelectSeq(stdout, Failed))

\* a report of two failures, one of a fixture with a quote in its name
C8_Witness ==
    /\ pc = "exited" /\ InRun
    /\ Len(failures) = 2
    /\ \E j \in 1..2 : IsSubstring("\"", failures[j].name)
    /\ num_passed > 0

\* C9: the fixtures listed or executed are the discovered fixtures whose
\* display_name equals the filter (exact) or contains it (otherwise, or any
\* name without a filter) and contains no skip substring; none when the
\* ignored flag is set; in sorted display_name order.
C9_Filtering ==
    (pc \in {"list", "run", "loop", "summary"} \/ (pc = "exited" /\ packs_dir \in DOMAIN fs)) =>
        /\ {tests[i].name : i \in 1..Len(tests)} = Discovered
        /\ {selected[i].name : i \in 1..Len(selected)} = Survivors
        /\ Ascending(Names(selected))
        /\ (pc = "exited" /\ args.list) =>
              stdout = [i \in 1..Len(selected) |-> [k |-> "name", name |-> selected[i].name]]
        /\ (pc = "exited" /\ ~args.list) =>
              [i \in 1..Len(TestLines) |-> TestLines[i].name] = Names(selected)

\* a substring filter and a skip that each remove a fixture and leave one
C9_Witness ==
    /\ pc = "exited" /\ packs_dir \in DOMAIN fs
    /\ args.filter.some /\ args.filter.val # "" /\ ~args.exact /\ args.skip # <<>>
    /\ selected # <<>>
    /\ \E n \in Discovered : ~IsSubstring(args.filter.val, n)
    /\ \E n \in Discovered :
          /\ IsSubstring(args.filter.val, n)
          /\ \E i \in 1..Len(args.skip) : IsSubstring(args.skip[i], n)

====
